---- MODULE Spec2Model ----
(***************************************************************************)
(* Working-context layer of openclaw: the SQLite entry store               *)
(* (storage.ts), the retention policy of WorkingContextManager             *)
(* (manager.ts) and the prompt formatter (injection.ts).                   *)
(*                                                                         *)
(* The table context_entries is the sequence `store`, kept in rowid order: *)
(* the table has no INTEGER PRIMARY KEY, so SQLite gives a new row the     *)
(* rowid max(rowid)+1 and a row appended to the sequence is the row with   *)
(* the largest rowid.  An optional value (string | null, object | null,    *)
(* an absent option) is a sequence of length 0 or 1.                       *)
(***************************************************************************)
EXTENDS Integers, Sequences, FiniteSets, TLC

VARIABLES
    store,              \* rows of context_entries, in rowid order
    now,                \* the last reading of Date.now()
    nextId,             \* the number of the next randomUUID()
    maxEntries,         \* ManagerConfig.maxEntries
    defaultTtlMinutes,  \* ManagerConfig.defaultTtlMinutes
    lastOp,             \* name of the last operation called
    lastArg,            \* its argument
    lastRet,            \* what it returned, or that it threw
    plainAdds,          \* history: every call so far was a Manager.add that
                        \* succeeded and found no stored row expired
    fmtEntries,         \* formatForSystemPrompt: the entries argument
    fmtOptions,         \* formatForSystemPrompt: the options argument
    fmtLines,           \* formatForSystemPrompt: the lines it joined
    fmtOut,             \* formatForSystemPrompt: the string it returned
    fmtDone,            \* whether formatForSystemPrompt has been applied
    runTextBuffers,     \* capture.ts: Map from run id to buffered text
    runSessionKeys,     \* capture.ts: Map from run id to session key
    instance,           \* singleton.ts: the shared manager, or null
    openHandles,        \* the managers whose database handle is open
    nextManager,        \* the number of the next manager constructed
    capAdded            \* the inputs the last handler call passed to Manager.add

storeVars == <<store, now, nextId, maxEntries, defaultTtlMinutes,
               lastOp, lastArg, lastRet, plainAdds>>
fmtVars == <<fmtEntries, fmtOptions, fmtLines, fmtOut, fmtDone>>
capVars == <<runTextBuffers, runSessionKeys, instance, openHandles,
             nextManager, capAdded>>
vars == <<storeVars, fmtVars, capVars>>

----------------------------------------------------------------------------
(* Bounds of the model *)

MaxIds == 2         \* rows ever inserted into one store
MaxCap == 2         \* largest configured maxEntries of a store that is written
MaxRows == 3        \* rows of a store that is read
MaxFmtEntries == 3  \* entries passed to formatForSystemPrompt
MaxCaptured == 1    \* entries written through the capture handler
MaxManagers == 3    \* managers constructed by getWorkingContextManager

----------------------------------------------------------------------------
(* Optional values *)

None == <<>>
Some(v) == <<v>>
IsSome(o) == Len(o) > 0
Get(o) == o[1]

Max(a, b) == IF a >= b THEN a ELSE b
Min(a, b) == IF a <= b THEN a ELSE b

Range(f) == {f[i] : i \in DOMAIN f}

----------------------------------------------------------------------------
(* types.ts *)

SESSION_TYPES == {"dm", "webhook", "cron", "group"}

\* z.string().min(1), z.enum(SESSION_TYPES), z.string().min(1);
\* taskId and metadata are optional.
CreateEntrySchemaOk(input) ==
    /\ Len(input.sessionKey) >= 1
    /\ input.sessionType \in SESSION_TYPES
    /\ Len(input.summary) >= 1

\* The metadata objects used as inputs: {} and {"k": "v"}, each a sequence
\* of <<key, value>> pairs.
MetadataObjects == { <<>>, << <<"k", "v">> >> }

\* JSON.stringify of a Record<string, string>
RECURSIVE JSONPairs(_)
JSONPairs(obj) ==
    IF obj = <<>> THEN ""
    ELSE "\"" \o Head(obj)[1] \o "\":\"" \o Head(obj)[2] \o "\""
         \o (IF Len(obj) > 1 THEN "," ELSE "") \o JSONPairs(Tail(obj))

JSONstringify(obj) == "{" \o JSONPairs(obj) \o "}"

\* JSON.parse, on the texts JSON.stringify produces
JSONparse(text) == CHOOSE obj \in MetadataObjects : JSONstringify(obj) = text

\* JavaScript truthiness of a string | null and of an object | null
TruthyString(o) == IsSome(o) /\ Get(o) # ""
TruthyObject(o) == IsSome(o)

----------------------------------------------------------------------------
(* storage.ts: WorkingContextStorage *)

MsPerMinute == 60000

rowToEntry(row) ==
    [ id          |-> row.id,
      sessionKey  |-> row.session_key,
      sessionType |-> row.session_type,
      summary     |-> row.summary,
      taskId      |-> row.task_id,
      pinned      |-> (row.pinned = 1),
      createdAt   |-> row.created_at,
      expiresAt   |-> row.expires_at,
      metadata    |-> IF TruthyString(row.metadata)
                      THEN Some(JSONparse(Get(row.metadata))) ELSE None ]

\* The entry insert() builds; t is its reading of Date.now(), id its UUID.
NewEntry(input, ttlMinutes, t, id) ==
    [ id          |-> id,
      sessionKey  |-> input.sessionKey,
      sessionType |-> input.sessionType,
      summary     |-> input.summary,
      taskId      |-> input.taskId,        \* input.taskId ?? null
      pinned      |-> FALSE,
      createdAt   |-> t,
      expiresAt   |-> t + ttlMinutes * MsPerMinute,
      metadata    |-> input.metadata ]     \* input.metadata ?? null

\* The row the INSERT statement binds for an entry.
EntryToRow(entry) ==
    [ id           |-> entry.id,
      session_key  |-> entry.sessionKey,
      session_type |-> entry.sessionType,
      summary      |-> entry.summary,
      task_id      |-> entry.taskId,
      pinned       |-> IF entry.pinned THEN 1 ELSE 0,
      created_at   |-> entry.createdAt,
      expires_at   |-> entry.expiresAt,
      metadata     |-> IF TruthyObject(entry.metadata)
                       THEN Some(JSONstringify(Get(entry.metadata))) ELSE None ]

insert(db, input, ttlMinutes, t, id) ==
    LET entry == NewEntry(input, ttlMinutes, t, id)
    IN  [ db |-> Append(db, EntryToRow(entry)), ret |-> entry ]

\* SELECT * FROM context_entries WHERE id = ?   (id is the primary key)
RowsWithId(db, id) == {i \in DOMAIN db : db[i].id = id}

getById(db, id) ==
    IF RowsWithId(db, id) = {} THEN None
    ELSE Some(rowToEntry(db[CHOOSE i \in RowsWithId(db, id) : TRUE]))

\* Faulty WHERE clause: a pinned row passes every condition.
RecentWherePinnedPassesAll(row, t, options) ==
    \/ row.pinned = 1
    \/ /\ row.expires_at > t
       /\ IsSome(options.maxAgeMs) => row.created_at > t - Get(options.maxAgeMs)
       /\ IsSome(options.sessionType) => row.session_type = Get(options.sessionType)
       /\ IsSome(options.taskId) => row.task_id = Some(Get(options.taskId))

\* The WHERE clause getRecent builds from its options.
RecentWhere(row, t, options) ==
    /\ (row.expires_at > t \/ row.pinned = 1)
    /\ IsSome(options.maxAgeMs) =>
           (row.created_at > t - Get(options.maxAgeMs) \/ row.pinned = 1)
    /\ IsSome(options.sessionType) => row.session_type = Get(options.sessionType)
    /\ IsSome(options.taskId) => row.task_id = Some(Get(options.taskId))

\* Faulty ORDER BY created_at DESC, rowid DESC: the pinned key is missing.
RecentBeforeUnpinnedKey(db, i, j) ==
    \/ db[i].created_at > db[j].created_at
    \/ db[i].created_at = db[j].created_at /\ i > j

\* Faulty ORDER BY pinned DESC, created_at DESC, rowid ASC: rows of one
\* millisecond come out oldest first.
RecentBeforeRowidAsc(db, i, j) ==
    \/ db[i].pinned > db[j].pinned
    \/ db[i].pinned = db[j].pinned /\ db[i].created_at > db[j].created_at
    \/ db[i].pinned = db[j].pinned /\ db[i].created_at = db[j].created_at /\ i < j

\* ORDER BY pinned DESC, created_at DESC, rowid DESC: row i sorts before row j.
RecentBefore(db, i, j) ==
    \/ db[i].pinned > db[j].pinned
    \/ db[i].pinned = db[j].pinned /\ db[i].created_at > db[j].created_at
    \/ db[i].pinned = db[j].pinned /\ db[i].created_at = db[j].created_at /\ i > j

DefaultLimit == 100

\* options.limit ?? 100
RecentLimit(options) ==
    IF IsSome(options.limit) THEN Get(options.limit) ELSE DefaultLimit

\* The first n elements of q (LIMIT n, n >= 0).
Take(q, n) == SubSeq(q, 1, Min(n, Len(q)))

getRecent(db, t, options) ==
    LET hits == {i \in DOMAIN db : RecentWhere(db[i], t, options)}
        ordered == [k \in 1..Cardinality(hits) |->
                      CHOOSE i \in hits :
                        Cardinality({j \in hits : RecentBefore(db, j, i)}) = k - 1]
        rows == Take(ordered, RecentLimit(options))
    IN  [k \in 1..Len(rows) |-> rowToEntry(db[rows[k]])]

\* Rows kept by a DELETE whose WHERE clause selects the positions in gone.
Without(db, gone) ==
    LET keep(i) == i \notin gone
        RECURSIVE From(_)
        From(i) == IF i > Len(db) THEN <<>>
                   ELSE (IF keep(i) THEN <<db[i]>> ELSE <<>>) \o From(i + 1)
    IN  From(1)

\* Faulty UPDATE result: changes >= 0 instead of changes > 0.
SetPinnedChangesGeq(db, id, v) ==
    [ db  |-> [i \in DOMAIN db |->
                 IF db[i].id = id THEN [db[i] EXCEPT !.pinned = v] ELSE db[i]],
      ret |-> Cardinality(RowsWithId(db, id)) >= 0 ]

\* Faulty UPDATE result: only a row whose pinned value changed is counted.
SetPinnedChangedOnly(db, id, v) ==
    [ db  |-> [i \in DOMAIN db |->
                 IF db[i].id = id THEN [db[i] EXCEPT !.pinned = v] ELSE db[i]],
      ret |-> \E i \in RowsWithId(db, id) : db[i].pinned # v ]

\* Faulty UPDATE that also sets expires_at to created_at on the row.
SetPinnedTouchesExpiry(db, id, v) ==
    [ db  |-> [i \in DOMAIN db |->
                 IF db[i].id = id
                 THEN [db[i] EXCEPT !.pinned = v, !.expires_at = db[i].created_at]
                 ELSE db[i]],
      ret |-> Cardinality(RowsWithId(db, id)) > 0 ]

\* UPDATE context_entries SET pinned = v WHERE id = ?
SetPinned(db, id, v) ==
    [ db  |-> [i \in DOMAIN db |->
                 IF db[i].id = id THEN [db[i] EXCEPT !.pinned = v] ELSE db[i]],
      ret |-> Cardinality(RowsWithId(db, id)) > 0 ]

pin(db, id) == SetPinned(db, id, 1)

unpin(db, id) == SetPinned(db, id, 0)

\* DELETE FROM context_entries WHERE id = ?
delete(db, id) ==
    [ db  |-> Without(db, RowsWithId(db, id)),
      ret |-> Cardinality(RowsWithId(db, id)) > 0 ]

\* Faulty DELETE ... WHERE task_id = ? AND pinned = 0: pinned rows are spared.
deleteByTaskIdUnpinned(db, taskId) ==
    LET gone == {i \in DOMAIN db : db[i].task_id = Some(taskId) /\ db[i].pinned = 0}
    IN  [ db |-> Without(db, gone), ret |-> Cardinality(gone) ]

\* DELETE FROM context_entries WHERE task_id = ?
deleteByTaskId(db, taskId) ==
    LET gone == {i \in DOMAIN db : db[i].task_id = Some(taskId)}
    IN  [ db |-> Without(db, gone), ret |-> Cardinality(gone) ]

\* Faulty DELETE ... WHERE expires_at < ?: a row expiring now is kept.
ExpiredRowsStrict(db, t) ==
    {i \in DOMAIN db : db[i].expires_at < t /\ db[i].pinned = 0}

\* DELETE FROM context_entries WHERE expires_at <= ? AND pinned = 0
ExpiredRows(db, t) ==
    {i \in DOMAIN db : db[i].expires_at <= t /\ db[i].pinned = 0}

pruneExpired(db, t) ==
    [ db |-> Without(db, ExpiredRows(db, t)),
      ret |-> Cardinality(ExpiredRows(db, t)) ]

\* Faulty subquery without WHERE pinned = 0: pinned rows count against the cap.
CapCandidatesAll(db) == DOMAIN db

\* SELECT id FROM context_entries WHERE pinned = 0: the candidates of the
\* cap.
CapCandidates(db) == {i \in DOMAIN db : db[i].pinned = 0}

\* ORDER BY created_at DESC: the orders the subquery may produce.  The
\* clause names no second key, so the order of rows with equal created_at
\* is whatever the query plan yields (a reverse scan of
\* idx_entries_created_at gives the larger rowid first, a sort of a table
\* scan the smaller rowid first).
CapOrders(db) ==
    LET cand == CapCandidates(db)
        n == Cardinality(cand)
    IN  {q \in [1..n -> cand] :
           /\ \A a, b \in 1..n : a # b => q[a] # q[b]
           /\ \A a, b \in 1..n :
                a < b => db[q[a]].created_at >= db[q[b]].created_at}

\* Faulty DELETE with OFFSET maxEntries + 1: one row too many is kept.
enforceMaxEntriesOffsetPlusOne(db, cap) ==
    { LET gone == {q[k] : k \in (cap + 2)..Len(q)}
      IN  [ db |-> Without(db, gone), ret |-> Cardinality(gone) ]
      : q \in CapOrders(db) }

\* DELETE ... WHERE id IN (SELECT ... LIMIT -1 OFFSET maxEntries): every
\* outcome the statement can have, one per order of the subquery.
enforceMaxEntries(db, cap) ==
    { LET gone == {q[k] : k \in (cap + 1)..Len(q)}
      IN  [ db |-> Without(db, gone), ret |-> Cardinality(gone) ]
      : q \in CapOrders(db) }

count(db) == Len(db)

----------------------------------------------------------------------------
(* manager.ts: WorkingContextManager *)

\* Math.ceil(text.length / 4)
estimateTokens(text) == (Len(text) + 3) \div 4

\* Faulty loop: `continue` instead of `break`, so a later, smaller entry is
\* taken after one that did not fit.
RECURSIVE TruncateLoopContinue(_, _, _, _)
TruncateLoopContinue(entries, maxTokens, result, tokensUsed) ==
    IF entries = <<>> THEN result
    ELSE LET entry == Head(entries)
             entryTokens == estimateTokens(entry.summary)
         IN  IF tokensUsed + entryTokens > maxTokens /\ Len(result) > 0
             THEN TruncateLoopContinue(Tail(entries), maxTokens, result, tokensUsed)
             ELSE TruncateLoopContinue(Tail(entries), maxTokens,
                                       Append(result, entry), tokensUsed + entryTokens)

RECURSIVE TruncateLoop(_, _, _, _)
TruncateLoop(entries, maxTokens, result, tokensUsed) ==
    IF entries = <<>> THEN result
    ELSE LET entry == Head(entries)
             entryTokens == estimateTokens(entry.summary)
         IN  IF tokensUsed + entryTokens > maxTokens /\ Len(result) > 0
             THEN result
             ELSE TruncateLoop(Tail(entries), maxTokens,
                               Append(result, entry), tokensUsed + entryTokens)

truncateToTokenBudget(entries, maxTokens) ==
    TruncateLoop(entries, maxTokens, <<>>, 0)

\* What a call returns: a value, or the error it threw.
Returned(v) == [threw |-> FALSE, value |-> v]
Threw(e) == [threw |-> TRUE, value |-> e]

\* Faulty add: the input is validated after pruneExpired has run.
addPruneFirst(db, input, cap, ttlMinutes, t1, t2, id) ==
    LET pruned == pruneExpired(db, t1)
    IN  IF ~CreateEntrySchemaOk(input)
        THEN { [db |-> pruned.db, ret |-> Threw("ZodError"), pruned |-> pruned.ret] }
        ELSE LET inserted == insert(pruned.db, input, ttlMinutes, t2, id)
             IN  { [db |-> capped.db, ret |-> Returned(inserted.ret),
                    pruned |-> pruned.ret]
                   : capped \in enforceMaxEntries(inserted.db, cap) }

\* Manager.add: every outcome of one call.  t1 is the clock reading of
\* pruneExpired, t2 that of insert, id the UUID insert draws.
add(db, input, cap, ttlMinutes, t1, t2, id) ==
    IF ~CreateEntrySchemaOk(input)
    THEN { [db |-> db, ret |-> Threw("ZodError"), pruned |-> 0] }
    ELSE LET pruned == pruneExpired(db, t1)
             inserted == insert(pruned.db, input, ttlMinutes, t2, id)
         IN  { [db |-> capped.db, ret |-> Returned(inserted.ret),
                pruned |-> pruned.ret]
               : capped \in enforceMaxEntries(inserted.db, cap) }

\* Faulty query that passes no limit to the store.
ManagerCandidatesNoLimit(db, t, cap, options) ==
    getRecent(db, t,
              [ limit       |-> None,
                maxAgeMs    |-> IF IsSome(options.maxAge)
                                THEN Some(Get(options.maxAge) * MsPerMinute)
                                ELSE None,
                sessionType |-> options.sessionType,
                taskId      |-> options.taskId ])

\* The candidates Manager.getRecent asks the store for.
ManagerCandidates(db, t, cap, options) ==
    getRecent(db, t,
              [ limit       |-> Some(cap),
                maxAgeMs    |-> IF IsSome(options.maxAge)
                                THEN Some(Get(options.maxAge) * MsPerMinute)
                                ELSE None,
                sessionType |-> options.sessionType,
                taskId      |-> options.taskId ])

ManagerGetRecent(db, t, cap, options) ==
    LET entries == ManagerCandidates(db, t, cap, options)
    IN  IF IsSome(options.maxTokens)
        THEN truncateToTokenBudget(entries, Get(options.maxTokens))
        ELSE entries

ClearLimit == 10000

RECURSIVE DeleteEach(_, _)
DeleteEach(db, entries) ==
    IF entries = <<>> THEN db
    ELSE DeleteEach(delete(db, Head(entries).id).db, Tail(entries))

\* Faulty clear: every row is deleted, the expired unpinned ones too.
clearAllRows(db, t) ==
    DeleteEach(db, [i \in DOMAIN db |-> rowToEntry(db[i])])

clear(db, t) ==
    DeleteEach(db, getRecent(db, t, [ limit |-> Some(ClearLimit), maxAgeMs |-> None,
                                      sessionType |-> None, taskId |-> None ]))

----------------------------------------------------------------------------
(* injection.ts *)

SESSION_TYPE_LABELS ==
    [dm |-> "DM", webhook |-> "Webhook", cron |-> "Cron", group |-> "Group"]

\* Faulty label: the minutes are rounded to the nearest minute.
formatRelativeTimeRounded(timestampMs, nowMs) ==
    LET diffMs == nowMs - timestampMs
        diffMinutes == (diffMs + 30000) \div 60000
        diffHours == diffMinutes \div 60
        diffDays == diffHours \div 24
    IN  IF diffMinutes < 1 THEN "just now"
        ELSE IF diffMinutes < 60 THEN ToString(diffMinutes) \o "m ago"
        ELSE IF diffHours < 24 THEN ToString(diffHours) \o "h ago"
        ELSE ToString(diffDays) \o "d ago"

\* Math.floor(diffMs / 60_000) and so on: \div rounds down, as Math.floor.
formatRelativeTime(timestampMs, nowMs) ==
    LET diffMs == nowMs - timestampMs
        diffMinutes == diffMs \div 60000
        diffHours == diffMinutes \div 60
        diffDays == diffHours \div 24
    IN  IF diffMinutes < 1 THEN "just now"
        ELSE IF diffMinutes < 60 THEN ToString(diffMinutes) \o "m ago"
        ELSE IF diffHours < 24 THEN ToString(diffHours) \o "h ago"
        ELSE ToString(diffDays) \o "d ago"

CHARS_PER_TOKEN == 4

\* injection.ts has its own estimateTokens: Math.ceil(text.length / CHARS_PER_TOKEN)
injectionEstimateTokens(text) == (Len(text) + CHARS_PER_TOKEN - 1) \div CHARS_PER_TOKEN

formatEntry(entry, nowMs) ==
    LET time == formatRelativeTime(entry.createdAt, nowMs)
        label == SESSION_TYPE_LABELS[entry.sessionType]
        pinMark == IF entry.pinned THEN " [pinned]" ELSE ""
        task == IF TruthyString(entry.taskId)
                THEN " (task: " \o Get(entry.taskId) \o ")" ELSE ""
    IN  "- [" \o time \o ", " \o label \o pinMark \o "]" \o task \o " " \o entry.summary

Header == "## Working Context (recent activity)\n"

TruncationMarker == "- ... (older entries truncated)"

DefaultMaxTokens == 2000

\* The loop with the test "budget - lineTokens <= 0": a line that fits
\* exactly is cut.
RECURSIVE FormatLoopStrict(_, _, _, _)
FormatLoopStrict(entries, nowMs, budget, lines) ==
    IF entries = <<>> THEN lines
    ELSE LET line == formatEntry(Head(entries), nowMs)
             lineTokens == injectionEstimateTokens(line)
         IN  IF budget - lineTokens <= 0
             THEN Append(lines, TruncationMarker)
             ELSE FormatLoopStrict(Tail(entries), nowMs, budget - lineTokens,
                                   Append(lines, line))

\* The loop without its break: after the marker the later entries that fit
\* are still rendered.
RECURSIVE FormatLoopNoBreak(_, _, _, _)
FormatLoopNoBreak(entries, nowMs, budget, lines) ==
    IF entries = <<>> THEN lines
    ELSE LET line == formatEntry(Head(entries), nowMs)
             lineTokens == injectionEstimateTokens(line)
         IN  IF budget - lineTokens < 0
             THEN FormatLoopNoBreak(Tail(entries), nowMs, budget,
                                    Append(lines, TruncationMarker))
             ELSE FormatLoopNoBreak(Tail(entries), nowMs, budget - lineTokens,
                                    Append(lines, line))

\* The for loop of formatForSystemPrompt: the lines array when it ends.
RECURSIVE FormatLoop(_, _, _, _)
FormatLoop(entries, nowMs, budget, lines) ==
    IF entries = <<>> THEN lines
    ELSE LET line == formatEntry(Head(entries), nowMs)
             lineTokens == injectionEstimateTokens(line)
         IN  IF budget - lineTokens < 0
             THEN Append(lines, TruncationMarker)
             ELSE FormatLoop(Tail(entries), nowMs, budget - lineTokens,
                             Append(lines, line))

\* The lines formatForSystemPrompt joins; clock is Date.now().
formatLines(entries, options, clock) ==
    IF Len(entries) = 0 THEN <<>>
    ELSE LET nowMs == IF IsSome(options.now) THEN Get(options.now) ELSE clock
             maxTokens == IF IsSome(options.maxTokens)
                          THEN Get(options.maxTokens) ELSE DefaultMaxTokens
         IN  FormatLoop(entries, nowMs,
                        maxTokens - injectionEstimateTokens(Header), <<>>)

\* lines.join("\n")
RECURSIVE Join(_)
Join(lines) ==
    IF lines = <<>> THEN ""
    ELSE IF Len(lines) = 1 THEN lines[1]
    ELSE lines[1] \o "\n" \o Join(Tail(lines))

\* Faulty formatter without the early return for an empty list.
formatForSystemPromptNoEarlyReturn(entries, options, clock) ==
    Header \o Join(formatLines(entries, options, clock))

formatForSystemPrompt(entries, options, clock) ==
    IF Len(entries) = 0 THEN ""
    ELSE Header \o Join(formatLines(entries, options, clock))

----------------------------------------------------------------------------
(* singleton.ts *)

\* resolveWorkingContextConfig, for the two fields that gate the layer.
resolveWorkingContextConfig(cfg) ==
    [ enabled     |-> IF IsSome(cfg.enabled) THEN Get(cfg.enabled) ELSE TRUE,
      autoCapture |-> IF IsSome(cfg.autoCapture) THEN Get(cfg.autoCapture) ELSE TRUE ]

\* Faulty getWorkingContextManager: an existing instance is returned before
\* the enabled flag is looked at.
getWorkingContextManagerInstanceFirst(inst, open, m, cfg, openFails) ==
    IF IsSome(inst)
    THEN [ret |-> Returned(inst), instance |-> inst, open |-> open, next |-> m]
    ELSE IF ~resolveWorkingContextConfig(cfg).enabled
    THEN [ret |-> Returned(None), instance |-> inst, open |-> open, next |-> m]
    ELSE IF openFails
    THEN [ret |-> Threw("SqliteError"), instance |-> inst, open |-> open, next |-> m]
    ELSE [ret |-> Returned(Some(m)), instance |-> Some(m),
          open |-> open \cup {m}, next |-> m + 1]

\* getWorkingContextManager.  inst is the module variable instance, open the
\* managers with an open handle, m the number of the next manager, and
\* openFails whether opening the database raises.
getWorkingContextManager(inst, open, m, cfg, openFails) ==
    IF ~resolveWorkingContextConfig(cfg).enabled
    THEN [ret |-> Returned(None), instance |-> inst, open |-> open, next |-> m]
    ELSE IF IsSome(inst)
    THEN [ret |-> Returned(inst), instance |-> inst, open |-> open, next |-> m]
    ELSE IF openFails
    THEN [ret |-> Threw("SqliteError"), instance |-> inst, open |-> open, next |-> m]
    ELSE [ret |-> Returned(Some(m)), instance |-> Some(m),
          open |-> open \cup {m}, next |-> m + 1]

\* closeWorkingContextManager: instance.close() closes the handle.
closeWorkingContextManager(inst, open) ==
    IF IsSome(inst)
    THEN [instance |-> None, open |-> open \ {Get(inst)}]
    ELSE [instance |-> inst, open |-> open]

\* _resetForTest: the variable is cleared, close() is not called.
resetForTest(inst, open) == [instance |-> None, open |-> open]

----------------------------------------------------------------------------
(* capture.ts *)

\* Faulty get that returns the value of some key of the map, whatever key is
\* asked for.
MapGetAnyKey(map, key) ==
    IF DOMAIN map = {} THEN None ELSE Some(map[CHOOSE k \in DOMAIN map : TRUE])

\* A Map: a function whose domain is the set of its keys.
MapGet(map, key) == IF key \in DOMAIN map THEN Some(map[key]) ELSE None
MapSet(map, key, value) ==
    [k \in DOMAIN map \cup {key} |-> IF k = key THEN value ELSE map[k]]
\* Faulty delete that removes nothing.
MapDeleteNothing(map, key) == map

MapDelete(map, key) == [k \in DOMAIN map \ {key} |-> map[k]]

\* String.prototype.split(":")
RECURSIVE SplitColon(_)
SplitColon(text) ==
    IF text = "" THEN <<"">>
    ELSE LET rest == SplitColon(Tail(text))
         IN  IF Head(text) = ":" THEN <<"">> \o rest
             ELSE <<Head(text) \o Head(rest)>> \o Tail(rest)

mapSessionType(sessionKey) ==
    LET parts == SplitColon(sessionKey)
    IN  IF parts[1] = "cron" THEN "cron"
        ELSE IF parts[1] = "hook" THEN "webhook"
        ELSE IF Len(parts) >= 4 /\ parts[3] \in {"telegram", "discord", "signal"}
                /\ parts[4] = "group" THEN "group"
        ELSE "dm"

Whitespace == {" ", "\n", "\t"}

RECURSIVE TrimStart(_)
TrimStart(text) ==
    IF text # "" /\ Head(text) \in Whitespace THEN TrimStart(Tail(text)) ELSE text

RECURSIVE TrimEnd(_)
TrimEnd(text) ==
    IF text # "" /\ SubSeq(text, Len(text), Len(text)) \in Whitespace
    THEN TrimEnd(SubSeq(text, 1, Len(text) - 1)) ELSE text

\* String.prototype.trim()
Trim(text) == TrimEnd(TrimStart(text))

FallbackSummary == "Agent turn completed"

\* Faulty summary: cut when longer than 180 characters, to 177 and "...".
captureSummary180(accumulatedText) ==
    IF IsSome(accumulatedText) /\ Get(accumulatedText) # ""
       /\ Trim(Get(accumulatedText)) # ""
    THEN LET text == Trim(Get(accumulatedText))
         IN  IF Len(text) > 180 THEN SubSeq(text, 1, 177) \o "..." ELSE text
    ELSE FallbackSummary

\* The summary of lines 100-107: accumulatedText is runTextBuffers.get(runId).
captureSummary(accumulatedText) ==
    IF IsSome(accumulatedText) /\ Get(accumulatedText) # ""
       /\ Trim(Get(accumulatedText)) # ""
    THEN LET text == Trim(Get(accumulatedText))
         IN  IF Len(text) > 200 THEN SubSeq(text, 1, 197) \o "..." ELSE text
    ELSE FallbackSummary

\* lifecyclePhase of lines 68-71
lifecyclePhase(evt) ==
    IF evt.stream = "lifecycle" /\ IsSome(evt.phase) THEN evt.phase ELSE None

\* sessionKey ?? runSessionKeys.get(evt.runId)
resolvedSessionKey(evt, keys) ==
    IF IsSome(evt.sessionKey) THEN evt.sessionKey ELSE MapGet(keys, evt.runId)

\* The try block of the handler (lines 90-113): what it did when control
\* left it.  fault names the call that raises, if one does.
TryCapture(evt, key, cfg, fault, buffers, db, cap, ttlMinutes, t, id, inst, open, m) ==
    LET same == [threw |-> FALSE, added |-> <<>>, db |-> db, id |-> id,
                 instance |-> inst, open |-> open, next |-> m]
    IN  IF fault = "loadConfig" THEN {[same EXCEPT !.threw = TRUE]}
        ELSE LET wcConfig == resolveWorkingContextConfig(cfg)
             IN  IF ~wcConfig.enabled \/ ~wcConfig.autoCapture THEN {same}
                 ELSE LET got == getWorkingContextManager(inst, open, m, cfg,
                                                          fault = "open")
                          held == [same EXCEPT !.instance = got.instance,
                                               !.open = got.open,
                                               !.next = got.next]
                          input == [ sessionKey  |-> key,
                                     sessionType |-> mapSessionType(key),
                                     summary     |-> captureSummary(
                                                       MapGet(buffers, evt.runId)),
                                     taskId      |-> None,
                                     metadata    |-> None ]
                      IN  IF got.ret.threw THEN {[held EXCEPT !.threw = TRUE]}
                          ELSE IF ~IsSome(got.ret.value) THEN {held}
                          ELSE IF fault = "add"
                          THEN {[held EXCEPT !.threw = TRUE, !.added = <<input>>]}
                          ELSE { [held EXCEPT !.threw = out.ret.threw,
                                              !.added = <<input>>,
                                              !.db = out.db,
                                              !.id = IF out.ret.threw THEN id
                                                     ELSE id + 1]
                                 : out \in add(db, input, cap, ttlMinutes, t, t, id) }

\* A handler whose catch clause is missing: the error reaches the caller.
CatchRethrow(attempt) ==
    IF attempt.threw THEN Threw("Error") ELSE Returned(None)

\* catch { }: whatever the try block raised, the handler returns normally.
Catch(attempt) == Returned(None)

\* The handler returned by createWorkingContextCaptureHandler: every outcome
\* of one call.
captureHandler(evt, cfg, fault, buffers, keys, db, cap, ttlMinutes, t, id, inst, open, m) ==
    LET done(b, k) == [ret |-> Returned(None), added |-> <<>>, buffers |-> b,
                       keys |-> k, db |-> db, id |-> id, instance |-> inst,
                       open |-> open, next |-> m]
        cleared == done(MapDelete(buffers, evt.runId), MapDelete(keys, evt.runId))
        key == resolvedSessionKey(evt, keys)
    IN  IF evt.stream = "assistant" /\ IsSome(evt.text)
        THEN IF TruthyString(evt.sessionKey)
             THEN {done(MapSet(buffers, evt.runId, Get(evt.text)),
                        MapSet(keys, evt.runId, Get(evt.sessionKey)))}
             ELSE {done(buffers, keys)}
        ELSE IF lifecyclePhase(evt) # Some("end")
        THEN IF lifecyclePhase(evt) = Some("error")
             THEN {cleared} ELSE {done(buffers, keys)}
        ELSE IF ~TruthyString(key) THEN {cleared}
        ELSE { [ret |-> Catch(attempt), added |-> attempt.added,
                buffers |-> cleared.buffers, keys |-> cleared.keys,
                db |-> attempt.db, id |-> attempt.id,
                instance |-> attempt.instance, open |-> attempt.open,
                next |-> attempt.next]
               : attempt \in TryCapture(evt, Get(key), cfg, fault, buffers, db,
                                        cap, ttlMinutes, t, id, inst, open, m) }

\* The capture state of a process that has handled no event.
CaptureIdle ==
    /\ runTextBuffers = <<>>
    /\ runSessionKeys = <<>>
    /\ instance = None
    /\ openHandles = {}
    /\ nextManager = 1
    /\ capAdded = <<>>

----------------------------------------------------------------------------
(* Inputs of the calls *)

Ids == 1..MaxIds

TaskIds == {"task-x", "task-y"}

ValidInputs ==
    { [ sessionKey |-> "agent:main:main", sessionType |-> "dm",
        summary |-> "First entry", taskId |-> Some("task-x"), metadata |-> None ],
      [ sessionKey |-> "hook:42", sessionType |-> "webhook",
        summary |-> "ok", taskId |-> None,
        metadata |-> Some(<< <<"k", "v">> >>) ],
      [ sessionKey |-> "cron:nightly", sessionType |-> "cron",
        summary |-> "Third", taskId |-> Some("task-y"), metadata |-> Some(<<>>) ] }

MalformedInputs ==
    { [ sessionKey |-> "", sessionType |-> "dm",
        summary |-> "First entry", taskId |-> None, metadata |-> None ],
      [ sessionKey |-> "agent:main:main", sessionType |-> "dm",
        summary |-> "", taskId |-> Some("task-x"), metadata |-> None ],
      [ sessionKey |-> "agent:main:main", sessionType |-> "email",
        summary |-> "First entry", taskId |-> None, metadata |-> None ] }

Inputs == ValidInputs \cup MalformedInputs

\* The inputs of the rows of a store that is read: they differ in session
\* type, task id and summary length.
ReadInputs == {input \in ValidInputs : input.sessionType \in {"dm", "webhook"}}

StoreOptions ==
    [ limit       : {None} \cup {Some(n) : n \in 0..2},
      maxAgeMs    : {None, Some(1)},
      sessionType : {None, Some("dm")},
      taskId      : {None, Some("task-x")} ]

ManagerOptions ==
    [ maxTokens   : {None} \cup {Some(n) : n \in {0, 1, 3, 4}},
      maxAge      : {None, Some(1)},
      sessionType : {None, Some("dm")},
      taskId      : {None} ]

\* The configured TTLs tried: none, and one minute.
TtlChoices == {0, 1}

\* The instants at which Date.now() is read: two successive milliseconds
\* and one a minute later.
Instants == {0, 1, MsPerMinute}

\* The clock readings possible after reading t (the clock does not go back).
Readings(t) == {u \in Instants : u >= t}

----------------------------------------------------------------------------
(* The calls on one manager and its store *)

Called(op, arg, ret) ==
    /\ lastOp' = op
    /\ lastArg' = arg
    /\ lastRet' = ret

Tick ==
    /\ \E t \in Readings(now) \ {now} : now' = t
    /\ Called("tick", None, Returned(None))
    /\ UNCHANGED <<store, nextId, maxEntries, defaultTtlMinutes, plainAdds, fmtVars, capVars>>

Manager_add(input) ==
    /\ CreateEntrySchemaOk(input) => nextId <= MaxIds
    /\ \E t2 \in Readings(now) :
       \E out \in add(store, input, maxEntries, defaultTtlMinutes, now, t2, nextId) :
          /\ store' = out.db
          /\ Called("add", input, out.ret)
          /\ now' = IF out.ret.threw THEN now ELSE t2
          /\ nextId' = IF out.ret.threw THEN nextId ELSE nextId + 1
          /\ plainAdds' = (plainAdds /\ ~out.ret.threw /\ out.pruned = 0)
    /\ UNCHANGED <<maxEntries, defaultTtlMinutes, fmtVars, capVars>>

\* A call that reads the store and leaves it as it is.
Query(op, arg, value) ==
    /\ Called(op, arg, Returned(value))
    /\ plainAdds' = FALSE
    /\ UNCHANGED <<store, now, nextId, maxEntries, defaultTtlMinutes, fmtVars, capVars>>

\* A call that replaces the store by out.db and returns out.ret.
Update(op, arg, out) ==
    /\ store' = out.db
    /\ Called(op, arg, Returned(out.ret))
    /\ plainAdds' = FALSE
    /\ UNCHANGED <<now, nextId, maxEntries, defaultTtlMinutes, fmtVars, capVars>>

Manager_getById(id) == Query("getById", id, getById(store, id))

Manager_getRecent(options) ==
    Query("getRecent", options, ManagerGetRecent(store, now, maxEntries, options))

Storage_getRecent(options) ==
    Query("storage.getRecent", options, getRecent(store, now, options))

Manager_count == Query("count", None, count(store))

Manager_pin(id) == Update("pin", id, pin(store, id))

Manager_unpin(id) == Update("unpin", id, unpin(store, id))

Manager_delete(id) == Update("delete", id, delete(store, id))

Manager_clearByTaskId(taskId) ==
    Update("clearByTaskId", taskId, deleteByTaskId(store, taskId))

Manager_pruneExpired == Update("pruneExpired", None, pruneExpired(store, now))

Manager_clear == Update("clear", None, [db |-> clear(store, now), ret |-> None])

Init ==
    /\ store = <<>>
    /\ now = 0
    /\ nextId = 1
    /\ maxEntries \in 1..MaxCap
    /\ defaultTtlMinutes \in TtlChoices
    /\ lastOp = "new"
    /\ lastArg = None
    /\ lastRet = Returned(None)
    /\ plainAdds = TRUE
    /\ fmtEntries = <<>>
    /\ fmtOptions = None
    /\ fmtLines = <<>>
    /\ fmtOut = ""
    /\ fmtDone = FALSE
    /\ CaptureIdle

Next ==
    \/ Tick
    \/ \E input \in Inputs : Manager_add(input)
    \/ \E id \in Ids : Manager_getById(id)
    \/ Manager_count
    \/ \E id \in Ids : Manager_pin(id)
    \/ \E id \in Ids : Manager_unpin(id)
    \/ \E id \in Ids : Manager_delete(id)
    \/ \E taskId \in TaskIds : Manager_clearByTaskId(taskId)
    \/ Manager_pruneExpired
    \/ Manager_clear

Spec == Init /\ [][Next]_vars

----------------------------------------------------------------------------
(* The read calls, each applied once to a stored state *)

\* The stores of k rows a manager can hold at time t: row i was added by
\* Manager.add (input ins[i], clock reading ts[i]) and pinned before the next
\* add, so that no prune and no cap touched it, and the rows with pins[i] = 0
\* were unpinned again at the end.
StoresOf(k, ttlMinutes, t) ==
    { [i \in 1..k |->
         [EntryToRow(NewEntry(ins[i], ttlMinutes, ts[i], i)) EXCEPT !.pinned = pins[i]]]
      : ins \in [1..k -> ReadInputs],
        pins \in [1..k -> {0, 1}],
        ts \in {f \in [1..k -> Instants] :
                  /\ \A i \in 1..k : f[i] <= t
                  /\ \A i, j \in 1..k : i < j => f[i] <= f[j]} }

InitRead ==
    /\ maxEntries \in 1..MaxRows
    /\ defaultTtlMinutes \in TtlChoices
    /\ now \in Instants
    /\ \E k \in 0..MaxRows :
          /\ store \in StoresOf(k, defaultTtlMinutes, now)
          /\ nextId = k + 1
    /\ lastOp = "new"
    /\ lastArg = None
    /\ lastRet = Returned(None)
    /\ plainAdds = FALSE
    /\ fmtEntries = <<>>
    /\ fmtOptions = None
    /\ fmtLines = <<>>
    /\ fmtOut = ""
    /\ fmtDone = FALSE
    /\ CaptureIdle

\* The store's getRecent does not read maxEntries, so it is called under one
\* configured value only.
NextRead ==
    /\ lastOp = "new"
    /\ \/ \E options \in ManagerOptions : Manager_getRecent(options)
       \/ /\ maxEntries = 1
          /\ \E options \in StoreOptions : Storage_getRecent(options)

SpecRead == InitRead /\ [][NextRead]_vars

----------------------------------------------------------------------------
(* formatForSystemPrompt, applied once to an entry list *)

MsPerDay == 24 * 60 * MsPerMinute

\* The time of the call: two days after time 0.
FmtNow == 2 * MsPerDay

\* The entries passed in: created 30 seconds, 5 minutes, 3 hours and 2 days
\* before the call.
FmtEntrySamples ==
    { [ id |-> 1, sessionKey |-> "agent:main:main", sessionType |-> "dm",
        summary |-> "just now entry", taskId |-> None, pinned |-> FALSE,
        createdAt |-> FmtNow - 30000, expiresAt |-> FmtNow + MsPerMinute,
        metadata |-> None ],
      [ id |-> 2, sessionKey |-> "hook:42", sessionType |-> "webhook",
        summary |-> "Started auth refactor task for ki-at-obv",
        taskId |-> Some("auth-refactor"), pinned |-> TRUE,
        createdAt |-> FmtNow - 5 * MsPerMinute, expiresAt |-> FmtNow + MsPerMinute,
        metadata |-> None ],
      [ id |-> 3, sessionKey |-> "cron:nightly", sessionType |-> "cron",
        summary |-> "3 hour entry", taskId |-> Some(""), pinned |-> FALSE,
        createdAt |-> FmtNow - 3 * 60 * MsPerMinute, expiresAt |-> FmtNow + MsPerMinute,
        metadata |-> None ],
      [ id |-> 4, sessionKey |-> "agent:main:telegram:group:-1", sessionType |-> "group",
        summary |-> "x", taskId |-> None, pinned |-> FALSE,
        createdAt |-> 0, expiresAt |-> FmtNow + MsPerMinute,
        metadata |-> None ] }

FmtEntryLists ==
    UNION { [1..k -> FmtEntrySamples] : k \in 0..MaxFmtEntries }

\* options.now: absent, the time of the call, and times that put a sample
\* entry just below or exactly at one minute, one hour and one day of age,
\* or in the future.
FmtNows ==
    { FmtNow, FmtNow + 29999, FmtNow + 30000,
      FmtNow + 55 * MsPerMinute - 1, FmtNow + 55 * MsPerMinute,
      FmtNow + 21 * 60 * MsPerMinute - 1, FmtNow + 21 * 60 * MsPerMinute,
      MsPerMinute }

FmtOptions ==
    [ maxTokens : {None} \cup {Some(n) : n \in {0, 9, 10, 14, 15, 18, 24, 33, 40}},
      now       : {None} \cup {Some(t) : t \in FmtNows} ]

InitFormat ==
    /\ store = <<>>
    /\ now = FmtNow
    /\ nextId = 1
    /\ maxEntries = 1
    /\ defaultTtlMinutes = 1
    /\ lastOp = "new"
    /\ lastArg = None
    /\ lastRet = Returned(None)
    /\ plainAdds = FALSE
    /\ fmtEntries \in FmtEntryLists
    /\ fmtOptions \in FmtOptions
    /\ fmtLines = <<>>
    /\ fmtOut = ""
    /\ fmtDone = FALSE
    /\ CaptureIdle

Format ==
    /\ ~fmtDone
    /\ fmtLines' = formatLines(fmtEntries, fmtOptions, now)
    /\ fmtOut' = formatForSystemPrompt(fmtEntries, fmtOptions, now)
    /\ fmtDone' = TRUE
    /\ UNCHANGED <<storeVars, fmtEntries, fmtOptions, capVars>>

NextFormat == Format

SpecFormat == InitFormat /\ [][NextFormat]_vars

----------------------------------------------------------------------------
(* The capture handler and the singleton of one process *)

RunIds == {"run-1", "run-2"}

RECURSIVE Repeat(_, _)
Repeat(text, n) == IF n = 0 THEN "" ELSE text \o Repeat(text, n - 1)

\* Assistant texts: empty, blank, 200 characters once trimmed, and 201
\* characters.
Long200 == Repeat("0123456789", 20)
Texts == { "", " \n", "  " \o Long200 \o "\n", Long200 \o "x" }

\* The session each run belongs to.
SessionKeyOf == [ r \in RunIds |->
                    IF r = "run-1" THEN "agent:main:main" ELSE "cron:nightly" ]

\* evt.sessionKey: absent, empty, or the key of the run's session.
EventKeys(runId) == {None, Some(""), Some(SessionKeyOf[runId])}

Events ==
    UNION { [ runId : {r}, stream : {"assistant"}, sessionKey : EventKeys(r),
              text : {None} \cup {Some(text) : text \in Texts}, phase : {None} ]
            \cup
            [ runId : {r}, stream : {"lifecycle"}, sessionKey : EventKeys(r),
              text : {None},
              phase : {None, Some("start"), Some("end"), Some("error")} ]
            \cup
            [ runId : {r}, stream : {"tool"}, sessionKey : {Some(SessionKeyOf[r])},
              text : {None}, phase : {Some("end")} ]
            : r \in RunIds }

\* cfg.workingContext: each field absent (its default is true) or false.
Configs == [ enabled : {None, Some(FALSE)}, autoCapture : {None, Some(FALSE)} ]

DefaultConfig == [ enabled |-> None, autoCapture |-> None ]

\* The call of the try block that raises: none, loadConfig, the opening of
\* the database, or Manager.add on a store fault.
Faults == {"none", "loadConfig", "open", "add"}

\* Whether the handler enters its try block for evt.
ReachesTry(evt) ==
    /\ ~(evt.stream = "assistant" /\ IsSome(evt.text))
    /\ lifecyclePhase(evt) = Some("end")
    /\ TruthyString(resolvedSessionKey(evt, runSessionKeys))

Capture(evt, cfg, fault) ==
    /\ ~ReachesTry(evt) => cfg = DefaultConfig /\ fault = "none"
    /\ fault # "none" => cfg = DefaultConfig
    /\ \E out \in captureHandler(evt, cfg, fault, runTextBuffers, runSessionKeys,
                                 store, maxEntries, defaultTtlMinutes, now, nextId,
                                 instance, openHandles, nextManager) :
          /\ out.id <= MaxCaptured + 1
          /\ out.next <= MaxManagers + 1
          /\ Called("capture", [evt |-> evt, cfg |-> cfg, fault |-> fault], out.ret)
          /\ capAdded' = out.added
          /\ runTextBuffers' = out.buffers
          /\ runSessionKeys' = out.keys
          /\ store' = out.db
          /\ nextId' = out.id
          /\ instance' = out.instance
          /\ openHandles' = out.open
          /\ nextManager' = out.next
    /\ UNCHANGED <<now, maxEntries, defaultTtlMinutes, plainAdds, fmtVars>>

\* A call of getWorkingContextManager from elsewhere in the process.
GetManager(cfg, openFails) ==
    LET out == getWorkingContextManager(instance, openHandles, nextManager,
                                        cfg, openFails)
    IN  /\ out.next <= MaxManagers + 1
        /\ Called("getWorkingContextManager", [cfg |-> cfg, openFails |-> openFails],
                  out.ret)
        /\ instance' = out.instance
        /\ openHandles' = out.open
        /\ nextManager' = out.next
        /\ capAdded' = <<>>
        /\ UNCHANGED <<store, now, nextId, maxEntries, defaultTtlMinutes, plainAdds,
                       fmtVars, runTextBuffers, runSessionKeys>>

CloseManager ==
    LET out == closeWorkingContextManager(instance, openHandles)
    IN  /\ Called("closeWorkingContextManager", None, Returned(None))
        /\ instance' = out.instance
        /\ openHandles' = out.open
        /\ capAdded' = <<>>
        /\ UNCHANGED <<store, now, nextId, maxEntries, defaultTtlMinutes, plainAdds,
                       fmtVars, runTextBuffers, runSessionKeys, nextManager>>

ResetForTest ==
    LET out == resetForTest(instance, openHandles)
    IN  /\ Called("_resetForTest", None, Returned(None))
        /\ instance' = out.instance
        /\ openHandles' = out.open
        /\ capAdded' = <<>>
        /\ UNCHANGED <<store, now, nextId, maxEntries, defaultTtlMinutes, plainAdds,
                       fmtVars, runTextBuffers, runSessionKeys, nextManager>>

InitCapture ==
    /\ store = <<>>
    /\ now = 0
    /\ nextId = 1
    /\ maxEntries = 1
    /\ defaultTtlMinutes = 1
    /\ lastOp = "new"
    /\ lastArg = None
    /\ lastRet = Returned(None)
    /\ plainAdds = FALSE
    /\ fmtEntries = <<>>
    /\ fmtOptions = None
    /\ fmtLines = <<>>
    /\ fmtOut = ""
    /\ fmtDone = FALSE
    /\ CaptureIdle

NextCapture ==
    \/ \E evt \in Events, cfg \in Configs, fault \in Faults : Capture(evt, cfg, fault)
    \/ \E cfg \in Configs, openFails \in BOOLEAN : GetManager(cfg, openFails)

SpecCapture == InitCapture /\ [][NextCapture]_vars

\* The singleton alone: its three exported calls in any order.
NextSingleton ==
    \/ \E cfg \in Configs, openFails \in BOOLEAN : GetManager(cfg, openFails)
    \/ CloseManager
    \/ ResetForTest

SpecSingleton == InitCapture /\ [][NextSingleton]_vars

----------------------------------------------------------------------------
(* Claims about the store and the manager's writes (Spec) *)

IdsIn(db) == {db[i].id : i \in DOMAIN db}

\* C1: right after a successful Manager.add, getById(returned.id) yields an
\* entry equal in every field to the entry add returned.
C1_AddThenGetById ==
    (lastOp = "add" /\ ~lastRet.threw)
        => getById(store, lastRet.value.id) = Some(lastRet.value)

\* C2: after N > maxEntries successive Manager.add calls on an empty store,
\* none of them expired, the store holds exactly maxEntries entries and they
\* are the maxEntries most recently inserted ones.
C2_KeepsMostRecent ==
    (plainAdds /\ nextId - 1 > maxEntries)
        => /\ count(store) = maxEntries
           /\ IdsIn(store) = (nextId - maxEntries)..(nextId - 1)

\* C3: a row that is pinned when a call runs is still in the store after it,
\* unless the call is delete of its id, clearByTaskId of its task id, or
\* clear; in particular add and pruneExpired never delete it.
C3_PinnedLeaveOnlyByDeletion ==
    [][\A i \in DOMAIN store :
          (store[i].pinned = 1 /\ store[i].id \notin IdsIn(store'))
              => \/ lastOp' = "delete" /\ lastArg' = store[i].id
                 \/ lastOp' = "clearByTaskId" /\ store[i].task_id = Some(lastArg')
                 \/ lastOp' = "clear"]_vars

\* C3 witness: after an add, a pinned row past its expiresAt that is older
\* than maxEntries unpinned rows.
C3_Witness ==
    /\ lastOp = "add" /\ ~lastRet.threw
    /\ \E i \in DOMAIN store :
          /\ store[i].pinned = 1
          /\ store[i].expires_at < now
          /\ Cardinality({j \in DOMAIN store :
                            store[j].pinned = 0
                            /\ store[j].created_at > store[i].created_at})
               >= maxEntries

\* C8: clearByTaskId(t) returns the number of stored rows whose task id is t,
\* removes exactly those rows, and count() drops by the returned number.
C8_ClearByTaskId ==
    [][lastOp' = "clearByTaskId"
          => /\ ~lastRet'.threw
             /\ lastRet'.value =
                  Cardinality({i \in DOMAIN store : store[i].task_id = Some(lastArg')})
             /\ store' = SelectSeq(store, LAMBDA row : row.task_id # Some(lastArg'))
             /\ count(store') = count(store) - lastRet'.value]_vars

\* C8 witness: a clearByTaskId that removed a row and left a row without
\* task id in the store.
C8_Witness ==
    /\ lastOp = "clearByTaskId"
    /\ lastRet.value >= 1
    /\ \E i \in DOMAIN store : store[i].task_id = None

\* C9: Manager.add with an empty sessionKey, an empty summary or an unknown
\* sessionType throws and leaves the store exactly as it was.
C9_MalformedAddRejected ==
    [][(lastOp' = "add" /\ ~CreateEntrySchemaOk(lastArg'))
          => /\ lastRet'.threw
             /\ store' = store
             /\ nextId' = nextId]_vars

\* C9 witness: a rejected add on a store holding an expired unpinned row and
\* more unpinned rows than maxEntries.
C9_Witness ==
    /\ lastOp = "add" /\ lastRet.threw
    /\ ExpiredRows(store, now) # {}
    /\ Cardinality(CapCandidates(store)) > maxEntries

\* C10: getById, pin, unpin and delete of an id that is not in the store
\* return null or false without raising, and leave the store unchanged.
C10_AbsentId ==
    [][(lastOp' \in {"getById", "pin", "unpin", "delete"}
          /\ lastArg' \notin IdsIn(store))
          => /\ ~lastRet'.threw
             /\ lastRet'.value = (IF lastOp' = "getById" THEN None ELSE FALSE)
             /\ store' = store]_vars

\* C10 witness: unpin of an absent id on a store that holds a pinned row.
C10_Witness ==
    /\ lastOp = "unpin"
    /\ lastArg \notin IdsIn(store)
    /\ \E i \in DOMAIN store : store[i].pinned = 1

\* C11: pin(id) and unpin(id) return true exactly when a row with that id
\* is stored, whatever its pinned value was, and a second application
\* returns the same and leaves the store as the first one left it.
C11_PinIdempotent ==
    [][lastOp' \in {"pin", "unpin"}
          => LET again == IF lastOp' = "pin" THEN pin(store', lastArg')
                          ELSE unpin(store', lastArg')
             IN  /\ lastRet'.value = (lastArg' \in IdsIn(store))
                 /\ again.db = store'
                 /\ again.ret = lastRet'.value]_vars

\* C11 witness: a pin that returned true in a store that also holds an
\* unpinned row.
C11_Witness ==
    /\ lastOp = "pin"
    /\ lastRet.value = TRUE
    /\ \E i \in DOMAIN store : store[i].id = lastArg /\ store[i].pinned = 1
    /\ \E i \in DOMAIN store : store[i].pinned = 0

\* C19: pruneExpired removes exactly the unpinned rows whose expiresAt is at
\* or before the current time, returns their number, and leaves every other
\* row as it was.
C19_PruneExpired ==
    [][lastOp' = "pruneExpired"
          => /\ lastRet'.value =
                  Cardinality({i \in DOMAIN store :
                                 store[i].pinned = 0 /\ store[i].expires_at <= now})
             /\ store' = SelectSeq(store, LAMBDA row :
                                     row.pinned = 1 \/ row.expires_at > now)]_vars

\* C19 witness: a pruneExpired that removed a row and left a pinned row past
\* its expiresAt.
C19_Witness ==
    /\ lastOp = "pruneExpired"
    /\ lastRet.value >= 1
    /\ \E i \in DOMAIN store : store[i].pinned = 1 /\ store[i].expires_at <= now

\* The stores a successful add can leave when its steps run in the order
\* pruneExpired, insert, enforceMaxEntries.
StoresInAddOrder ==
    UNION { { capped.db : capped \in
                enforceMaxEntries(
                    insert(pruneExpired(store, now).db, lastArg',
                           defaultTtlMinutes, t2, nextId).db,
                    maxEntries) }
            : t2 \in Readings(now) }

\* C20: a successful Manager.add prunes, inserts and enforces the cap in that
\* order, and the entry it inserted is still stored when it returns.
C20_NewEntrySurvivesAdd ==
    [][(lastOp' = "add" /\ ~lastRet'.threw)
          => /\ store' \in StoresInAddOrder
             /\ lastRet'.value.id \in IdsIn(store')]_vars

C22_PinChangesOnlyPinned ==
    [][lastOp' \in {"pin", "unpin"}
          => /\ Len(store') = Len(store)
             /\ \A i \in DOMAIN store :
                   LET before == rowToEntry(store[i])
                       after == rowToEntry(store'[i])
                   IN  IF before.id = lastArg'
                       THEN after = [before EXCEPT !.pinned = (lastOp' = "pin")]
                       ELSE after = before]_vars

\* C22 witness: an unpin that returned true on a row with metadata whose
\* TTL is one minute, in a store that holds another row.
C22_Witness ==
    /\ lastOp = "unpin"
    /\ lastRet.value = TRUE
    /\ Len(store) = 2
    /\ \E i \in DOMAIN store :
          /\ store[i].id = lastArg
          /\ store[i].metadata # None
          /\ store[i].expires_at > store[i].created_at

\* The unpinned rows of db whose expiresAt is not after t.
ExpiredUnpinned(db, t) ==
    {i \in DOMAIN db : db[i].pinned = 0 /\ db[i].expires_at <= t}

\* C28: on a store of at most 10,000 rows clear() deletes every pinned row
\* and every row whose expiresAt is after the time of the call and keeps
\* the unpinned rows already expired, so that getRecent() is empty afterwards
\* and count() is the number of rows kept.
C28_ClearKeepsExpired ==
    [][(lastOp' = "clear" /\ Len(store) <= ClearLimit)
          => /\ store' = SelectSeq(store, LAMBDA row :
                                     row.pinned = 0 /\ row.expires_at <= now)
             /\ \A i \in DOMAIN store :
                   (store[i].pinned = 1 \/ store[i].expires_at > now)
                       => getById(store', store[i].id) = None
             /\ ManagerGetRecent(store', now', maxEntries,
                                 [ maxTokens |-> None, maxAge |-> None,
                                   sessionType |-> None, taskId |-> None ]) = <<>>
             /\ count(store') = Cardinality(ExpiredUnpinned(store, now))]_vars

\* C28 witness: after a clear() the store still holds a row, which is
\* unpinned and expired, while another row that was added is gone.
C28_Witness ==
    /\ lastOp = "clear"
    /\ count(store) = 1
    /\ nextId = 3
    /\ ExpiredUnpinned(store, now) = {1}

----------------------------------------------------------------------------
(* Claims about the read calls (SpecRead) *)

RECURSIVE SumTokens(_)
SumTokens(entries) ==
    IF entries = <<>> THEN 0
    ELSE estimateTokens(Head(entries).summary) + SumTokens(Tail(entries))

\* C4: the store's getRecent returns at most limit entries (100 when no
\* limit is given), every pinned entry before every unpinned one, and
\* entries of equal pin status in descending createdAt order.
C4_RecentLimitAndOrder ==
    lastOp = "storage.getRecent"
        => LET r == lastRet.value
               limit == IF IsSome(lastArg.limit) THEN Get(lastArg.limit) ELSE 100
           IN  /\ Len(r) <= limit
               /\ \A i, j \in DOMAIN r :
                     i < j => /\ r[j].pinned => r[i].pinned
                              /\ r[i].pinned = r[j].pinned
                                    => r[i].createdAt >= r[j].createdAt

\* C4 witness: a result cut to limit = 2 that holds a pinned entry followed by
\* an unpinned one, the pinned one being the older.
C4_Witness ==
    /\ lastOp = "storage.getRecent"
    /\ lastArg.limit = Some(2)
    /\ Len(lastRet.value) = 2
    /\ Cardinality({i \in DOMAIN store : RecentWhere(store[i], now, lastArg)}) > 2
    /\ lastRet.value[1].pinned /\ ~lastRet.value[2].pinned
    /\ lastRet.value[1].createdAt < lastRet.value[2].createdAt

\* The unpinned rows of the store that have not expired.
LiveUnpinned(db, t) == {i \in DOMAIN db : db[i].pinned = 0 /\ db[i].expires_at > t}

NoOptions == [maxTokens |-> None, maxAge |-> None, sessionType |-> None, taskId |-> None]

\* C5: Manager.getRecent returns unpinned entries in reverse insertion order
\* (ids are drawn in insertion order), also when their createdAt is equal;
\* called without options on a store of at most maxEntries rows, none pinned,
\* it returns every unexpired entry.
C5_ReverseInsertionOrder ==
    lastOp = "getRecent"
        => LET r == lastRet.value
           IN  /\ \A i, j \in DOMAIN r :
                     (i < j /\ ~r[i].pinned /\ ~r[j].pinned) => r[i].id > r[j].id
               /\ (/\ lastArg = NoOptions
                   /\ CapCandidates(store) = DOMAIN store
                   /\ count(store) <= maxEntries)
                     => {r[i].id : i \in DOMAIN r}
                          = {store[i].id : i \in LiveUnpinned(store, now)}

\* C5 witness: getRecent() returned three unpinned entries, two of which
\* share their createdAt.
C5_Witness ==
    /\ lastOp = "getRecent" /\ lastArg = NoOptions
    /\ Len(lastRet.value) = 3
    /\ \A i \in 1..3 : ~lastRet.value[i].pinned
    /\ lastRet.value[1].createdAt = lastRet.value[2].createdAt
    /\ lastRet.value[2].createdAt > lastRet.value[3].createdAt

\* C7: with maxTokens, Manager.getRecent returns a prefix of the candidate
\* list, non-empty when the candidates are; a result of two or more entries
\* costs at most maxTokens; and the first candidate left out is one that
\* would have exceeded the budget.
C7_TokenBudgetPrefix ==
    (lastOp = "getRecent" /\ IsSome(lastArg.maxTokens))
        => LET r == lastRet.value
               candidates == ManagerCandidates(store, now, maxEntries, lastArg)
               maxTokens == Get(lastArg.maxTokens)
           IN  /\ Len(r) <= Len(candidates)
               /\ r = SubSeq(candidates, 1, Len(r))
               /\ candidates # <<>> => r # <<>>
               /\ Len(r) > 1 => SumTokens(r) <= maxTokens
               /\ Len(r) < Len(candidates)
                     => SumTokens(r) + estimateTokens(candidates[Len(r) + 1].summary)
                          > maxTokens

\* C7 witness: of three candidates the first alone is returned, the second
\* would exceed the budget and the third would have fitted.
C7_Witness ==
    /\ lastOp = "getRecent" /\ IsSome(lastArg.maxTokens)
    /\ LET candidates == ManagerCandidates(store, now, maxEntries, lastArg)
       IN  /\ Len(candidates) = 3
           /\ Len(lastRet.value) = 1
           /\ SumTokens(lastRet.value) + estimateTokens(candidates[3].summary)
                <= Get(lastArg.maxTokens)

\* The ids of the stored rows that the selection rule of the claim admits
\* for the storage.getRecent call just made.
SelectedIds ==
    { store[i].id : i \in
        { i \in DOMAIN store :
            /\ (store[i].expires_at > now \/ store[i].pinned = 1)
            /\ \/ lastArg.maxAgeMs = None
               \/ now - store[i].created_at < Get(lastArg.maxAgeMs)
               \/ store[i].pinned = 1
            /\ (lastArg.sessionType = None
                  \/ store[i].session_type = Get(lastArg.sessionType))
            /\ (lastArg.taskId = None \/ store[i].task_id = lastArg.taskId) } }

ReturnedIds == { lastRet.value[k].id : k \in DOMAIN lastRet.value }

\* C18 as claimed: the store's getRecent returns an entry exactly when the
\* selection rule admits it.
C18_Claimed ==
    lastOp = "storage.getRecent" => ReturnedIds = SelectedIds

\* C18 amended: the store's getRecent returns only entries the selection rule
\* admits, all of them when they are no more than the limit (100 when none is
\* given), and otherwise as many of them as the limit.
C18_SelectionRule ==
    lastOp = "storage.getRecent"
        => LET limit == IF IsSome(lastArg.limit) THEN Get(lastArg.limit) ELSE 100
           IN  /\ ReturnedIds \subseteq SelectedIds
               /\ Cardinality(ReturnedIds) = Len(lastRet.value)
               /\ Len(lastRet.value) = Min(limit, Cardinality(SelectedIds))

\* C18 witness: a call filtered by session type, without limit, that returns
\* a pinned entry past its expiresAt and leaves out a pinned row of another
\* session type.
C18_Witness ==
    /\ lastOp = "storage.getRecent"
    /\ lastArg.sessionType = Some("dm")
    /\ lastArg.limit = None
    /\ \E k \in DOMAIN lastRet.value :
          lastRet.value[k].pinned /\ lastRet.value[k].expiresAt <= now
    /\ \E i \in DOMAIN store :
          /\ store[i].pinned = 1
          /\ store[i].session_type = "webhook"
          /\ store[i].id \notin ReturnedIds

\* The live unpinned rows that the Manager.getRecent call just made left out.
OmittedLive ==
    {i \in LiveUnpinned(store, now) :
       store[i].id \notin {lastRet.value[k].id : k \in DOMAIN lastRet.value}}

\* The store holds at least one pinned row and exactly maxEntries unexpired
\* unpinned rows, and getRecent() was called without options.
PinnedBesideFullCap ==
    /\ lastOp = "getRecent" /\ lastArg = NoOptions
    /\ Cardinality(DOMAIN store \ CapCandidates(store)) >= 1
    /\ Cardinality(LiveUnpinned(store, now)) = maxEntries

\* The rows left out are older than every unpinned row returned.
OmittedAreOldest ==
    \A i \in OmittedLive, j \in LiveUnpinned(store, now) \ OmittedLive : i < j

\* C27 as claimed: Manager.getRecent returns at most maxEntries entries, and
\* beside p >= 1 pinned rows and maxEntries unexpired unpinned rows it
\* returns maxEntries entries and leaves out the p oldest unpinned rows.
C27_Claimed ==
    lastOp = "getRecent"
        => /\ Len(lastRet.value) <= maxEntries
           /\ PinnedBesideFullCap
                 => /\ Len(lastRet.value) = maxEntries
                    /\ Cardinality(OmittedLive)
                         = Cardinality(DOMAIN store \ CapCandidates(store))
                    /\ OmittedAreOldest

\* C27 amended: Manager.getRecent returns at most maxEntries entries, and
\* beside p >= 1 pinned rows and maxEntries unexpired unpinned rows it
\* returns maxEntries entries, pinned ones first, and leaves out the
\* min(p, maxEntries) oldest unpinned rows.
C27_PinnedCrowdOutLive ==
    lastOp = "getRecent"
        => /\ Len(lastRet.value) <= maxEntries
           /\ PinnedBesideFullCap
                 => LET p == Cardinality(DOMAIN store \ CapCandidates(store))
                    IN  /\ Len(lastRet.value) = maxEntries
                        /\ Cardinality({k \in DOMAIN lastRet.value :
                                          lastRet.value[k].pinned})
                             = Min(p, maxEntries)
                        /\ Cardinality(OmittedLive) = Min(p, maxEntries)
                        /\ OmittedAreOldest

\* C27 witness: with maxEntries = 2, one pinned row and two live unpinned
\* rows, getRecent() returned the pinned row and the newer unpinned one.
C27_Witness ==
    /\ PinnedBesideFullCap
    /\ maxEntries = 2
    /\ Len(lastRet.value) = 2
    /\ lastRet.value[1].pinned /\ ~lastRet.value[2].pinned
    /\ Cardinality(OmittedLive) = 1

----------------------------------------------------------------------------
(* Claims about formatForSystemPrompt (SpecFormat) *)

\* The maxTokens in force.
FmtMaxTokens ==
    IF IsSome(fmtOptions.maxTokens) THEN Get(fmtOptions.maxTokens) ELSE DefaultMaxTokens

\* The nowMs in force.
FmtNowMs == IF IsSome(fmtOptions.now) THEN Get(fmtOptions.now) ELSE now

\* The cumulative estimated token cost of the rendered entries.
RECURSIVE FmtCost(_)
FmtCost(entries) ==
    IF entries = <<>> THEN 0
    ELSE injectionEstimateTokens(formatEntry(Head(entries), FmtNowMs))
         + FmtCost(Tail(entries))

FmtEntryLines == {i \in DOMAIN fmtLines : fmtLines[i] # TruncationMarker}

FmtOverBudget ==
    fmtDone /\ fmtEntries # <<>> /\ FmtCost(fmtEntries) > FmtMaxTokens

\* C6 as claimed: for a non-empty list whose cumulative cost exceeds
\* maxTokens the output holds the truncation marker, fewer entry lines than
\* there are entries, and at least one entry line.
C6_Claimed ==
    FmtOverBudget
        => /\ TruncationMarker \in Range(fmtLines)
           /\ Cardinality(FmtEntryLines) < Len(fmtEntries)
           /\ Cardinality(FmtEntryLines) >= 1

\* C6 amended: for such a list the output holds the truncation marker and
\* fewer entry lines than there are entries; it holds at least one entry line
\* exactly when the line of the first entry fits into maxTokens less the
\* tokens of the header.
C6_TruncatedOutput ==
    FmtOverBudget
        => /\ TruncationMarker \in Range(fmtLines)
           /\ Cardinality(FmtEntryLines) < Len(fmtEntries)
           /\ Cardinality(FmtEntryLines) >= 1
                <=> injectionEstimateTokens(formatEntry(fmtEntries[1], FmtNowMs))
                      <= FmtMaxTokens - injectionEstimateTokens(Header)

\* C6 witness: three entries over budget, two of them rendered before the
\* marker.
C6_Witness ==
    /\ FmtOverBudget
    /\ Len(fmtEntries) = 3
    /\ Len(fmtLines) = 3
    /\ fmtLines[3] = TruncationMarker

\* C16: for an empty entry list formatForSystemPrompt returns the empty
\* string, whatever maxTokens and now are.
C16_EmptyListEmptyString ==
    (fmtDone /\ fmtEntries = <<>>) => fmtOut = ""

\* C16 witness: the empty list formatted with maxTokens = 0 and a now given.
C16_Witness ==
    /\ fmtDone
    /\ fmtEntries = <<>>
    /\ fmtOptions.maxTokens = Some(0)
    /\ IsSome(fmtOptions.now)

\* The label of an elapsed time of d milliseconds, as the claim states it.
ElapsedLabel(d) ==
    IF d < MsPerMinute THEN "just now"
    ELSE IF d < 60 * MsPerMinute THEN ToString(d \div MsPerMinute) \o "m ago"
    ELSE IF d < MsPerDay THEN ToString(d \div (60 * MsPerMinute)) \o "h ago"
    ELSE ToString(d \div MsPerDay) \o "d ago"

\* C17: every rendered entry line starts with the label of the elapsed time
\* now - createdAt of its entry: "just now" under a minute, then whole
\* minutes, whole hours and whole days, rounded down.
C17_RelativeTimeLabel ==
    fmtDone
        => \A i \in FmtEntryLines :
              LET prefix == "- [" \o ElapsedLabel(FmtNowMs - fmtEntries[i].createdAt)
                                 \o ", "
              IN  /\ Len(fmtLines[i]) >= Len(prefix)
                  /\ SubSeq(fmtLines[i], 1, Len(prefix)) = prefix

\* C17 witness: lines labelled 59m ago (one millisecond short of an hour),
\* 3h ago and 2d ago in one output.
C17_Witness ==
    /\ fmtDone
    /\ Len(fmtLines) = 3
    /\ SubSeq(fmtLines[1], 1, 11) = "- [59m ago,"
    /\ SubSeq(fmtLines[2], 1, 10) = "- [3h ago,"
    /\ SubSeq(fmtLines[3], 1, 10) = "- [2d ago,"

\* The estimated tokens of the first k rendered input entries.
RECURSIVE FmtRunningTotal(_)
FmtRunningTotal(k) ==
    IF k = 0 THEN 0
    ELSE FmtRunningTotal(k - 1)
         + injectionEstimateTokens(formatEntry(fmtEntries[k], FmtNowMs))

\* C24: the output is the header and the joined lines; the entry lines are
\* the renderings of a prefix of the input in input order, each emitted with
\* the running total of line tokens within maxTokens less the header's
\* tokens; the marker occurs at most once, as the last line, exactly when
\* an input entry was not rendered, and it is added after the emitted lines
\* without replacing one.
C24_PrefixThenMarker ==
    (fmtDone /\ fmtEntries # <<>>)
        => LET n == Cardinality(FmtEntryLines)
               budget == FmtMaxTokens - injectionEstimateTokens(Header)
           IN  /\ fmtOut = Header \o Join(fmtLines)
               /\ n <= Len(fmtEntries)
               /\ FmtEntryLines = 1..n
               /\ \A k \in 1..n :
                     /\ fmtLines[k] = formatEntry(fmtEntries[k], FmtNowMs)
                     /\ FmtRunningTotal(k) <= budget
               /\ Len(fmtLines) = IF n < Len(fmtEntries) THEN n + 1 ELSE n

\* C24 witness: three entries of which the first is rendered, the second
\* does not fit and the third would have fit.
C24_Witness ==
    /\ fmtDone
    /\ Len(fmtEntries) = 3
    /\ Len(fmtLines) = 2
    /\ fmtLines[1] # TruncationMarker
    /\ fmtLines[2] = TruncationMarker
    /\ FmtRunningTotal(1)
         + injectionEstimateTokens(formatEntry(fmtEntries[3], FmtNowMs))
           <= FmtMaxTokens - injectionEstimateTokens(Header)

----------------------------------------------------------------------------
(* Claims about the capture handler (SpecCapture) *)

\* The handler call of this step is a lifecycle event of the given phase.
CapturedPhase(phase) ==
    /\ lastOp' = "capture"
    /\ lastArg'.evt.stream = "lifecycle"
    /\ lastArg'.evt.phase = Some(phase)

\* C12: with capture enabled, the manager available and a session key known
\* for the run, a lifecycle "end" event makes exactly one Manager.add call;
\* its summary is the trimmed buffered text of the run, cut to 197 characters
\* followed by "..." when longer than 200, or "Agent turn completed" when no
\* text or only blank text is buffered.  A lifecycle "error" event makes no
\* add call.
C12_OneAddPerEnd ==
    [][/\ (/\ CapturedPhase("end")
           /\ TruthyString(resolvedSessionKey(lastArg'.evt, runSessionKeys))
           /\ lastArg'.cfg = DefaultConfig
           /\ lastArg'.fault \in {"none", "add"})
          => /\ Len(capAdded') = 1
             /\ capAdded'[1].sessionKey
                  = Get(resolvedSessionKey(lastArg'.evt, runSessionKeys))
             /\ LET buffered == MapGet(runTextBuffers, lastArg'.evt.runId)
                    text == IF IsSome(buffered) THEN Trim(Get(buffered)) ELSE ""
                    summary == capAdded'[1].summary
                IN  /\ text = "" => summary = FallbackSummary
                    /\ (text # "" /\ Len(text) <= 200) => summary = text
                    /\ Len(text) > 200
                         => /\ Len(summary) = 200
                            /\ SubSeq(summary, 1, 197) = SubSeq(text, 1, 197)
                            /\ SubSeq(summary, 198, 200) = "..."
       /\ CapturedPhase("error") => capAdded' = <<>> /\ store' = store]_vars

\* C12 witness: an "end" event whose add call carried a summary cut to 200
\* characters.
C12_Witness ==
    /\ lastOp = "capture"
    /\ lastArg.evt.phase = Some("end")
    /\ Len(capAdded) = 1
    /\ Len(capAdded[1].summary) = 200
    /\ SubSeq(capAdded[1].summary, 198, 200) = "..."

\* C13: every call of the capture handler returns normally.
C13_HandlerNeverThrows ==
    lastOp = "capture" => ~lastRet.threw

\* C13 witness: a handler call in which Manager.add was called and raised.
C13_Witness ==
    /\ lastOp = "capture"
    /\ lastArg.fault = "add"
    /\ Len(capAdded) = 1
    /\ ~lastRet.threw

\* C14: with enabled = false, getWorkingContextManager returns null and
\* constructs no manager, and the capture handler makes no add call and
\* writes nothing.
C14_DisabledIsInert ==
    [][(/\ lastOp' \in {"capture", "getWorkingContextManager"}
        /\ lastArg'.cfg.enabled = Some(FALSE))
          => /\ lastOp' = "getWorkingContextManager" => lastRet' = Returned(None)
             /\ nextManager' = nextManager
             /\ instance' = instance
             /\ openHandles' = openHandles
             /\ capAdded' = <<>>
             /\ store' = store]_vars

\* C14 witness: an "end" event handled while disabled, with a manager
\* constructed and an entry written earlier.
C14_Witness ==
    /\ lastOp = "capture"
    /\ lastArg.evt.phase = Some("end")
    /\ lastArg.cfg.enabled = Some(FALSE)
    /\ IsSome(instance)
    /\ store # <<>>

\* C23: when the handler has processed a lifecycle "end" or "error" event,
\* neither a buffered text nor a buffered session key remains for the run id
\* of the event.
C23_BuffersCleared ==
    (/\ lastOp = "capture"
     /\ lastArg.evt.stream = "lifecycle"
     /\ lastArg.evt.phase \in {Some("end"), Some("error")})
        => /\ lastArg.evt.runId \notin DOMAIN runTextBuffers
           /\ lastArg.evt.runId \notin DOMAIN runSessionKeys

\* C23 witness: an "end" event whose add call carried buffered text and
\* raised, handled while the other run has text buffered.
C23_Witness ==
    /\ lastOp = "capture"
    /\ lastArg.evt.phase = Some("end")
    /\ lastArg.fault = "add"
    /\ Len(capAdded) = 1
    /\ capAdded[1].summary # FallbackSummary
    /\ DOMAIN runTextBuffers # {}

\* part occurs in text.
Contains(text, part) ==
    /\ Len(part) <= Len(text)
    /\ \E i \in 1..(Len(text) - Len(part) + 1) :
          SubSeq(text, i, i + Len(part) - 1) = part

\* first occurs in text and second occurs after it.
ContainsInOrder(text, first, second) ==
    /\ Len(first) + Len(second) <= Len(text)
    /\ \E i \in Len(first)..(Len(text) - Len(second)) :
          /\ Contains(SubSeq(text, 1, i), first)
          /\ Contains(SubSeq(text, i + 1, Len(text)), second)

\* C25: assistant text is accumulated per run id: after an assistant event
\* with text and a session key, the buffer of its run, from which the summary
\* is derived at the "end" event, contains the text buffered before for that
\* run followed by the text of the event.
C25_FragmentsAccumulated ==
    [][(/\ lastOp' = "capture"
        /\ lastArg'.evt.stream = "assistant"
        /\ IsSome(lastArg'.evt.text)
        /\ TruthyString(lastArg'.evt.sessionKey))
          => LET run == lastArg'.evt.runId
                 before == IF run \in DOMAIN runTextBuffers
                           THEN runTextBuffers[run] ELSE ""
             IN  /\ run \in DOMAIN runTextBuffers'
                 /\ ContainsInOrder(runTextBuffers'[run], before,
                                    Get(lastArg'.evt.text))]_vars

\* The map restricted to the keys in keep.
MapOnly(map, keep) == [k \in DOMAIN map \cap keep |-> map[k]]

\* C26: a handler call for an event of one run leaves the buffered text and
\* session key of every other run as they were, and the input it passes to
\* Manager.add is the one it passes when nothing is buffered for the other
\* runs, carrying the session key of its own run.
C26_RunsIsolated ==
    [][lastOp' = "capture"
          => LET evt == lastArg'.evt
                 own == {evt.runId}
                 alone == captureHandler(evt, lastArg'.cfg, lastArg'.fault,
                                         MapOnly(runTextBuffers, own),
                                         MapOnly(runSessionKeys, own),
                                         store, maxEntries, defaultTtlMinutes,
                                         now, nextId, instance, openHandles,
                                         nextManager)
             IN  /\ \A other \in RunIds \ own :
                       /\ MapGet(runTextBuffers', other) = MapGet(runTextBuffers, other)
                       /\ MapGet(runSessionKeys', other) = MapGet(runSessionKeys, other)
                 /\ capAdded' \in {out.added : out \in alone}
                 /\ \A k \in DOMAIN capAdded' :
                       capAdded'[k].sessionKey = SessionKeyOf[evt.runId]]_vars

\* C26 witness: the "end" event of run-1, without a session key of its own,
\* wrote an entry from its buffered text while run-2 keeps another text
\* buffered.
C26_Witness ==
    /\ lastOp = "capture"
    /\ lastArg.evt.runId = "run-1"
    /\ lastArg.evt.phase = Some("end")
    /\ lastArg.evt.sessionKey = None
    /\ Len(capAdded) = 1
    /\ capAdded[1].summary # FallbackSummary
    /\ "run-2" \in DOMAIN runTextBuffers
    /\ captureSummary(Some(runTextBuffers["run-2"])) # capAdded[1].summary

----------------------------------------------------------------------------
(* Claims about the singleton (SpecSingleton) *)

\* C15: at most one manager holds an open handle to the database at any
\* time.
C15_SingleOpenHandle ==
    Cardinality(openHandles) <= 1

====
